---- MODULE Spec2Model ----
(***************************************************************************)
(* A model of the event-knowledge-dashboard core: the taxonomy sentiment   *)
(* resolver and event normalizer (utils_data.py), the co-occurrence graph  *)
(* builder and centrality ranker (graph_module.py), the location           *)
(* aggregator (geo_module.py) and the temporal aggregator                  *)
(* (timeline_module.py).                                                   *)
(*                                                                         *)
(* Python values that can have several shapes (a JSON value that may be a  *)
(* dict, a string, a number or None) are tagged records with a field t.    *)
(* A call's outcome is a record [ok, v, exc]: ok = TRUE and the value v    *)
(* when it returns, ok = FALSE and the exception's name when it raises.    *)
(* Floats are modelled by exact numbers: integers, and means as unreduced  *)
(* fractions [num, den].                                                   *)
(***************************************************************************)
EXTENDS Integers, Sequences, FiniteSets, TLC

VARIABLES
    pc,           \* control point of the component under execution
    taxonomy,     \* the taxonomy mapping (utils_data.py)
    category,     \* taxonomy_sentiment_lookup's category argument
    label,        \* taxonomy_sentiment_lookup's label argument
    ret,          \* outcome of taxonomy_sentiment_lookup
    events_json,  \* build_dataframe's event source: a sequence of groups
    rows,         \* build_dataframe's local list of rows
    df,           \* outcome of build_dataframe
    fdf,          \* the row collection given to the graph, map and timeline
    G,            \* build_cooccurrence_graph's graph
    row_idx,      \* number of rows build_cooccurrence_graph has iterated over
    top_n,        \* top_centralities_table's top_n argument
    table,        \* outcome of top_centralities_table
    agg,          \* outcome of _aggregate_by_location
    granularity,  \* the timeline functions' granularity argument
    top_k,        \* type_frequencies' top_k argument
    out,          \* outcome of frequency, avg_sentiment or type_frequencies
    ys,           \* the column add_rolling_mean and mark_local_peaks read
    window,       \* add_rolling_mean's window argument
    roll,         \* the column add_rolling_mean adds
    is_peak,      \* the column mark_local_peaks adds
    peak_i        \* mark_local_peaks' loop index i

taxVars == <<taxonomy, category, label, ret>>
normVars == <<events_json, rows, df>>
graphVars == <<G, row_idx, top_n, table>>

timeVars == <<granularity, top_k, out>>
seriesVars == <<ys, window, roll, is_peak, peak_i>>

vars == <<pc, taxVars, normVars, fdf, graphVars, agg, timeVars, seriesVars>>

\* What the resolver and the normalizer leave alone.
notNorm == <<fdf, graphVars, agg, timeVars, seriesVars>>
\* What the components that read the row collection leave alone.
notRows == <<taxVars, normVars>>
\* What the graph and the location aggregator leave alone.
notGraph == <<timeVars, seriesVars, notRows>>

(***************************************************************************)
(* Bounds of the model.                                                    *)
(***************************************************************************)
MaxEvents == 3
MaxGroups == 2
MaxRows == 3
MaxTopN == 3
MaxTopK == 2
MaxValue == 3
MaxSeriesLen == 5
MaxWindow == 3

(***************************************************************************)
(* Constants of the program.                                               *)
(***************************************************************************)
\* timeline_module.py: type_frequencies' default top_k
DefaultTopK == 10
\* geo_module.py: head(3), the labels kept per location
TopTypes == 3
\* geo_module.py: head(12), the titles kept per location
PreviewLen == 12

(***************************************************************************)
(* Python values and call outcomes.                                        *)
(***************************************************************************)
PyNone == [t |-> "none"]
Num(n) == [t |-> "num", v |-> n]
Str(s) == [t |-> "str", v |-> s]
Dict(f) == [t |-> "dict", v |-> f]
EmptyDict == Dict(<<>>)

Ret(x) == [ok |-> TRUE, v |-> x, exc |-> ""]
Raise(e) == [ok |-> FALSE, v |-> 0, exc |-> e]

\* The value a variable holds while its component is not the one running.
Idle == "idle"

TaxIdle == taxonomy = Idle /\ category = Idle /\ label = Idle /\ ret = Idle
NormIdle == events_json = Idle /\ rows = Idle /\ df = Idle
GraphIdle == G = Idle /\ row_idx = Idle /\ top_n = Idle /\ table = Idle
TimeIdle ==
    /\ granularity = Idle /\ top_k = Idle /\ out = Idle
    /\ ys = Idle /\ window = Idle /\ roll = Idle /\ is_peak = Idle
    /\ peak_i = Idle
RowsIdle == fdf = Idle /\ GraphIdle /\ agg = Idle /\ TimeIdle

Range(s) == {s[j] : j \in DOMAIN s}

RECURSIVE SumSeq(_)
SumSeq(s) == IF s = <<>> THEN 0 ELSE Head(s) + SumSeq(Tail(s))

RECURSIVE Concat(_)
Concat(ss) == IF ss = <<>> THEN <<>> ELSE Head(ss) \o Concat(Tail(ss))

(***************************************************************************)
(* utils_data.py: taxonomy_sentiment_lookup                                *)
(***************************************************************************)
\* float(x) for the values a "sentiment" field can hold.
PyFloat(x) ==
    CASE x.t = "num" -> Ret(x.v)
      [] x.t = "str" -> Raise("ValueError")
      [] OTHER -> Raise("TypeError")

\* entry.get("sentiment", 0), then float(): entry must be a dict to have .get
GetSentiment(entry) ==
    IF entry.t # "dict" THEN Raise("AttributeError")
    ELSE IF "sentiment" \in DOMAIN entry.v THEN PyFloat(entry.v["sentiment"])
    ELSE PyFloat(Num(0))

taxonomy_sentiment_lookup(tax, cat, lab) ==
    LET node == IF cat \in DOMAIN tax.v THEN tax.v[cat] ELSE EmptyDict
    IN  IF node.t = "dict" /\ lab \in DOMAIN node.v
        THEN GetSentiment(node.v[lab])
        ELSE IF node.t = "dict" /\ "other" \in DOMAIN node.v
                /\ node.v["other"].t = "dict"
        THEN GetSentiment(node.v["other"])
        ELSE Ret(0)

(***************************************************************************)
(* The taxonomies the resolver is tried on: category "Treaty" is missing,  *)
(* is not a mapping, or maps "Signed" and/or "other" to an entry that is   *)
(* well formed, lacks its sentiment, holds a non-number, or is no mapping. *)
(***************************************************************************)
EntryPool ==
    { Dict([sentiment |-> Num(3)]), Dict(<<>>), Num(5),
      Dict([sentiment |-> PyNone]) }

OtherPool ==
    { Dict([sentiment |-> Num(-1)]), Dict(<<>>), Num(7) }

NodePool ==
    {EmptyDict, Str("n/a")}
    \cup {Dict([Signed |-> e]) : e \in EntryPool}
    \cup {Dict([other |-> o]) : o \in OtherPool}
    \cup {Dict([Signed |-> e, other |-> o]) : e \in EntryPool, o \in OtherPool}

TaxonomyPool == {EmptyDict} \cup {Dict([Treaty |-> n]) : n \in NodePool}

Categories == {"Treaty", "X"}
Labels == {"Signed", "UnknownLabel", "other"}

\* The taxonomy build_dataframe is run with: of the documented shape.
WellFormedTaxonomy ==
    Dict([Treaty |-> Dict([Signed |-> Dict([sentiment |-> Num(3)]),
                           other |-> Dict([sentiment |-> Num(-1)])]),
          Conflict |-> Dict([Attack |-> Dict([sentiment |-> Num(-4)])])])

(***************************************************************************)
(* utils_data.py: parse_event_date                                         *)
(*                                                                         *)
(* A date descriptor is None (the key is missing), a non-mapping value, or *)
(* a mapping [t |-> "dict", kind, date, start, end] whose fields are       *)
(* Absent when the key is missing.  A text is [t |-> "str", fmt, d, m, y]: *)
(* the day, month and year it spells, and the format it spells them in.    *)
(***************************************************************************)
Absent == [t |-> "absent"]
KindAbsent == "<absent>"
DateDict(k, dt, st, en) ==
    [t |-> "dict", kind |-> k, date |-> dt, start |-> st, end |-> en]
DateText(dd, mm, yy) == [t |-> "str", fmt |-> "d/m/Y", d |-> dd, m |-> mm, y |-> yy]
IsoText(dd, mm, yy) == [t |-> "str", fmt |-> "Y-m-d", d |-> dd, m |-> mm, y |-> yy]
Date(yy, mm, dd) == [t |-> "date", v |-> <<yy, mm, dd>>]

IsLeap(y) == (y % 4 = 0 /\ y % 100 # 0) \/ y % 400 = 0

DaysInMonth(m, y) ==
    IF m = 2 THEN (IF IsLeap(y) THEN 29 ELSE 28)
    ELSE IF m \in {4, 6, 9, 11} THEN 30 ELSE 31

\* datetime.strptime(s, "%d/%m/%Y")
strptime(s) ==
    IF s.t # "str" THEN Raise("TypeError")
    ELSE IF s.fmt # "d/m/Y" THEN Raise("ValueError")
    ELSE IF ~(s.y \in 1..9999 /\ s.m \in 1..12) THEN Raise("ValueError")
    ELSE IF ~(s.d \in 1..DaysInMonth(s.m, s.y)) THEN Raise("ValueError")
    ELSE Ret(Date(s.y, s.m, s.d))

\* d[key]: KeyError when the key is missing
GetItem(d, key) ==
    LET x == CASE key = "date" -> d.date
               [] key = "start" -> d.start
               [] key = "end" -> d.end
    IN  IF x.t = "absent" THEN Raise("KeyError") ELSE Ret(x)

\* strptime(d[key], "%d/%m/%Y") inside the try block: any exception gives None
ParseField(d, key) ==
    LET item == GetItem(d, key)
        parsed == strptime(item.v)
    IN  IF ~item.ok THEN PyNone
        ELSE IF ~parsed.ok THEN PyNone
        ELSE parsed.v

\* A range resolved to its start instead of its end.
parse_event_date_range_start(d) ==
    IF d.t # "dict" THEN PyNone
    ELSE IF d.kind = "single" THEN ParseField(d, "date")
    ELSE IF d.kind = "range" THEN ParseField(d, "start")
    ELSE PyNone

parse_event_date(d) ==
    IF d.t # "dict" THEN PyNone             \* d.get raises, caught
    ELSE IF d.kind = "single" THEN ParseField(d, "date")
    ELSE IF d.kind = "range" THEN ParseField(d, "end")
    ELSE PyNone

(***************************************************************************)
(* utils_data.py: flatten_events, event_sentiment, extract_event_types,    *)
(* build_dataframe                                                         *)
(*                                                                         *)
(* An event is [event_title, event_location, event_date_occured,           *)
(* event_date_occurred, entities, event_classifications]; its              *)
(* classifications are a sequence of <<category, labels>> in the mapping's *)
(* order, its entities a sequence of [name, tag] ("" when missing).        *)
(***************************************************************************)
flatten_events(groups) == Concat(groups)

\* Python truthiness of a date descriptor: None and {} are falsy.
Truthy(d) ==
    CASE d.t = "none" -> FALSE
      [] d.t = "dict" ->
            \/ d.kind # KindAbsent
            \/ d.date.t # "absent" \/ d.start.t # "absent" \/ d.end.t # "absent"
      [] OTHER -> TRUE

EmptyDescriptor == DateDict(KindAbsent, Absent, Absent, Absent)

\* ev.get("event_date_occured") or ev.get("event_date_occurred") or {}
DateDescriptor(ev) ==
    IF Truthy(ev.event_date_occured) THEN ev.event_date_occured
    ELSE IF Truthy(ev.event_date_occurred) THEN ev.event_date_occurred
    ELSE EmptyDescriptor

\* The (category, label) pairs of an event, in iteration order.
RECURSIVE ClassPairs(_)
ClassPairs(ec) ==
    IF ec = <<>> THEN <<>>
    ELSE [j \in 1..Len(Head(ec)[2]) |-> <<Head(ec)[1], Head(ec)[2][j]>>]
         \o ClassPairs(Tail(ec))

event_sentiment(ev, tax) ==
    LET pairs == ClassPairs(ev.event_classifications)
        looked == [j \in 1..Len(pairs) |->
                      taxonomy_sentiment_lookup(tax, pairs[j][1], pairs[j][2])]
    IN  IF \E j \in 1..Len(pairs) : ~looked[j].ok
        THEN Raise((CHOOSE j \in 1..Len(pairs) :
                       ~looked[j].ok /\ \A h \in 1..(j - 1) : looked[h].ok).exc)
        ELSE IF pairs = <<>> THEN Ret([num |-> 0, den |-> 1])
        ELSE Ret([num |-> SumSeq([j \in 1..Len(pairs) |-> looked[j].v]),
                  den |-> Len(pairs)])

extract_event_types(ev) ==
    Concat([j \in 1..Len(ev.event_classifications) |->
               ev.event_classifications[j][2]])

\* One iteration of build_dataframe's loop: the row of event ev.
MakeRow(ev, tax) ==
    LET s == event_sentiment(ev, tax)
        named == SelectSeq(ev.entities, LAMBDA e : e.name # "")
        tagged == SelectSeq(ev.entities, LAMBDA e : e.tag # "")
    IN  IF ~s.ok THEN s
        ELSE Ret([event_title |-> ev.event_title,
                  event_location |-> ev.event_location,
                  date |-> parse_event_date(DateDescriptor(ev)),
                  entity_names |-> [j \in 1..Len(named) |-> named[j].name],
                  entity_tags |-> [j \in 1..Len(tagged) |-> tagged[j].tag],
                  sentiment |-> s.v,
                  event_types |-> extract_event_types(ev)])

\* pd.DataFrame(rows).dropna(subset=["date"]).reset_index(drop=True): a frame
\* made of no rows has no "date" column, and dropna raises KeyError.
DataFrameDropna(rs) ==
    IF rs = <<>> THEN Raise("KeyError")
    ELSE Ret(SelectSeq(rs, LAMBDA r : r.date.t # "none"))

(***************************************************************************)
(* The events the normalizer is run on.                                    *)
(***************************************************************************)
Event(title, d1, d2, ents, ec) ==
    [event_title |-> title, event_location |-> "Paris",
     event_date_occured |-> d1, event_date_occurred |-> d2,
     entities |-> ents, event_classifications |-> ec]

EventPool ==
    { \* a single date
      Event("single", DateDict("single", DateText(15, 3, 2021), Absent, Absent),
            PyNone, <<[name |-> "A", tag |-> "ORG"], [name |-> "", tag |-> "GPE"]>>,
            << <<"Treaty", <<"Signed", "Ratified">> >> >>),
      \* a range, under the other spelling of the key, ending on a leap day
      Event("range", EmptyDescriptor,
            DateDict("range", Absent, DateText(1, 1, 2020), DateText(29, 2, 2020)),
            <<[name |-> "A", tag |-> ""], [name |-> "B", tag |-> "PER"]>>,
            << <<"Conflict", <<"Attack">> >>, <<"Treaty", <<"Signed">> >> >>),
      \* a day the month does not have
      Event("badday", DateDict("single", DateText(31, 4, 2021), Absent, Absent),
            PyNone, <<>>, <<>>),
      \* a range with no end
      Event("noend", DateDict("range", Absent, DateText(1, 1, 2020), Absent),
            PyNone, <<>>, <<>>),
      \* an unknown kind
      Event("approx", DateDict("approx", DateText(15, 3, 2021), Absent, Absent),
            PyNone, <<>>, <<>>),
      \* another format; the valid descriptor under the other key is not read
      Event("iso", DateDict("single", IsoText(15, 3, 2021), Absent, Absent),
            DateDict("single", DateText(15, 3, 2021), Absent, Absent), <<>>, <<>>),
      \* a descriptor that is no mapping
      Event("text", PyNone, [t |-> "str"], <<>>, <<>>),
      \* no descriptor at all
      Event("none", PyNone, PyNone, <<>>, <<>>) }

NEvents(groups) == Len(flatten_events(groups))

(***************************************************************************)
(* Specification of the normalizer: an event source is loaded group by     *)
(* group, then build_dataframe runs over it.                               *)
(***************************************************************************)

InitNorm ==
    /\ pc = "load"
    /\ taxonomy = WellFormedTaxonomy
    /\ category = Idle /\ label = Idle /\ ret = Idle
    /\ events_json = <<>>
    /\ rows = Idle
    /\ df = Idle
    /\ RowsIdle

\* The source gets one more (empty) group.
LoadGroup ==
    /\ pc = "load"
    /\ Len(events_json) < MaxGroups
    /\ events_json' = Append(events_json, <<>>)
    /\ UNCHANGED <<pc, taxVars, rows, df, notNorm>>

\* The source's last group gets one more event.
LoadEvent ==
    /\ pc = "load"
    /\ events_json # <<>>
    /\ NEvents(events_json) < MaxEvents
    /\ \E ev \in EventPool :
          events_json' = [events_json EXCEPT
                             ![Len(events_json)] = Append(@, ev)]
    /\ UNCHANGED <<pc, taxVars, rows, df, notNorm>>

\* build_dataframe is called: rows = []
BuildBegin ==
    /\ pc = "load"
    /\ pc' = "build"
    /\ rows' = <<>>
    /\ UNCHANGED <<taxVars, events_json, df, notNorm>>

\* One iteration of "for ev in flatten_events(events_json)"
BuildRow ==
    /\ pc = "build"
    /\ Len(rows) < NEvents(events_json)
    /\ LET r == MakeRow(flatten_events(events_json)[Len(rows) + 1], taxonomy)
       IN  IF r.ok
           THEN rows' = Append(rows, r.v) /\ UNCHANGED <<pc, df>>
           ELSE df' = r /\ pc' = "build_done" /\ UNCHANGED rows
    /\ UNCHANGED <<taxVars, events_json, notNorm>>

\* The loop is over: the frame is made and its null-dated rows are dropped.
BuildFinish ==
    /\ pc = "build"
    /\ Len(rows) = NEvents(events_json)
    /\ df' = DataFrameDropna(rows)
    /\ pc' = "build_done"
    /\ UNCHANGED <<taxVars, events_json, rows, notNorm>>

NextNorm == LoadGroup \/ LoadEvent \/ BuildBegin \/ BuildRow \/ BuildFinish

SpecNorm == InitNorm /\ [][NextNorm]_vars

(***************************************************************************)
(* Specification of the resolver: one call of taxonomy_sentiment_lookup.   *)
(***************************************************************************)
InitTax ==
    /\ pc = "lookup"
    /\ taxonomy \in TaxonomyPool
    /\ category \in Categories
    /\ label \in Labels
    /\ ret = Idle
    /\ NormIdle
    /\ RowsIdle

Lookup ==
    /\ pc = "lookup"
    /\ ret' = taxonomy_sentiment_lookup(taxonomy, category, label)
    /\ pc' = "lookup_done"
    /\ UNCHANGED <<taxonomy, category, label, normVars, notNorm>>

NextTax == Lookup

SpecTax == InitTax /\ [][NextTax]_vars

(***************************************************************************)
(* graph_module.py: build_cooccurrence_graph                               *)
(*                                                                         *)
(* A graph is [nodes, edges]: its nodes in insertion order (the order      *)
(* G.nodes() iterates in) and its edge data keyed by the unordered pair    *)
(* {a, b}.  mean_sentiment is Absent until the closing loop sets it.       *)
(***************************************************************************)
EmptyGraph == [nodes |-> <<>>, edges |-> <<>>]

has_edge(g, a, b) == {a, b} \in DOMAIN g.edges

\* combinations(sorted(set(ents)), 2), as unordered pairs
Combinations2(ents) == {{a, b} : a \in Range(ents), b \in Range(ents)} \ {{a} : a \in Range(ents)}

\* "if not ents or len(ents) < 2: continue": the length of the list as given
SkipsRow(row) == row.entity_names = <<>> \/ Len(row.entity_names) < 2

\* The orders "for name in set(ents)" can visit the names not yet nodes in.
Perms(S) == {p \in [1..Cardinality(S) -> S] : Range(p) = S}
NewNodeOrders(g, row) == Perms(Range(row.entity_names) \ Range(g.nodes))

NewEdge(row) ==
    [weight |-> 1,
     sentiments |-> <<row.sentiment>>,
     event_types |-> row.event_types,
     event_titles |-> <<row.event_title>>,
     mean_sentiment |-> Absent]

\* An edge that is there already: the weight grows, the accumulators do not.
GrownEdge_weight_only(data, row) ==
    [data EXCEPT !.weight = @ + 1]

\* The has_edge branch: weight += 1 and the row appended to the accumulators
GrownEdge(data, row) ==
    [data EXCEPT !.weight = @ + 1,
                 !.sentiments = Append(@, row.sentiment),
                 !.event_types = @ \o row.event_types,
                 !.event_titles = Append(@, row.event_title)]

\* add_edge for every pair, whether or not the edge is there already.
AddRowEdges_overwrite(edges, row) ==
    LET pairs == Combinations2(row.entity_names)
    IN  [e \in (DOMAIN edges) \cup pairs |->
            IF e \in pairs THEN NewEdge(row) ELSE edges[e]]

\* The inner loop over the pairs of one row.
AddRowEdges(edges, row) ==
    LET pairs == Combinations2(row.entity_names)
    IN  [e \in (DOMAIN edges) \cup pairs |->
            IF e \notin pairs THEN edges[e]
            ELSE IF e \in DOMAIN edges THEN GrownEdge(edges[e], row)
            ELSE NewEdge(row)]

\* sum(s)/len(s) if s else 0.0
MeanSentiment(s) ==
    IF s = <<>> THEN [num |-> 0, den |-> 1]
    ELSE [num |-> SumSeq(s), den |-> Len(s)]

SetMeanSentiments(edges) ==
    [e \in DOMAIN edges |->
        [edges[e] EXCEPT !.mean_sentiment = MeanSentiment(edges[e].sentiments)]]

(***************************************************************************)
(* graph_module.py: top_centralities_table                                 *)
(*                                                                         *)
(* A record of the table is [entity, degree, degree_raw]; degree is the    *)
(* fraction nx.degree_centrality gives.  The betweenness and eigenvector   *)
(* columns play no part in the order or the length and are left out.       *)
(***************************************************************************)
\* G.degree(n), for a graph without self-loops
Degree(g, n) == Cardinality({e \in DOMAIN g.edges : n \in e})

\* nx.degree_centrality: 1 for a graph of one node, else degree / (len(G) - 1)
degree_centrality(g, n) ==
    IF Len(g.nodes) <= 1 THEN [num |-> 1, den |-> 1]
    ELSE [num |-> Degree(g, n), den |-> Len(g.nodes) - 1]

\* x < y for fractions of positive denominators
FracLess(x, y) == x.num * y.den < y.num * x.den

\* rs is sorted by degree, descending; r goes before the records equal to it.
InsertDesc_before_ties(rs, r) ==
    LET p == Cardinality({j \in 1..Len(rs) : FracLess(r.degree, rs[j].degree)})
    IN  SubSeq(rs, 1, p) \o <<r>> \o SubSeq(rs, p + 1, Len(rs))

\* rs is sorted by degree, descending; r goes after the records not below it.
InsertDesc(rs, r) ==
    LET p == Cardinality({j \in 1..Len(rs) : ~FracLess(rs[j].degree, r.degree)})
    IN  SubSeq(rs, 1, p) \o <<r>> \o SubSeq(rs, p + 1, Len(rs))

\* rows.sort(key=lambda r: r["degree"], reverse=True): a stable sort
RECURSIVE SortByDegreeDesc(_)
SortByDegreeDesc(rs) ==
    IF rs = <<>> THEN <<>>
    ELSE InsertDesc(SortByDegreeDesc(SubSeq(rs, 1, Len(rs) - 1)), rs[Len(rs)])

\* rows[:n] for n >= 0
Take(rs, n) == SubSeq(rs, 1, IF n < Len(rs) THEN n ELSE Len(rs))

top_centralities_table(g, n) ==
    IF Len(g.nodes) = 0 THEN <<>>
    ELSE LET recs == [j \in 1..Len(g.nodes) |->
                         [entity |-> g.nodes[j],
                          degree |-> degree_centrality(g, g.nodes[j]),
                          degree_raw |-> Degree(g, g.nodes[j])]]
         IN  Take(SortByDegreeDesc(recs), n)

(***************************************************************************)
(* Specification of the graph components: build_cooccurrence_graph runs    *)
(* over a row collection, then top_centralities_table over its graph.      *)
(***************************************************************************)
GraphRow(names, s, types) ==
    [event_title |-> "t", event_location |-> "Paris", entity_names |-> names,
     sentiment |-> s, event_types |-> types]

GraphRowPool ==
    { GraphRow(<<>>, 0, <<>>),
      GraphRow(<<"A">>, 1, <<1>>),
      GraphRow(<<"A", "A">>, 1, <<1>>),
      GraphRow(<<"A", "B">>, 2, <<1, 2>>),
      GraphRow(<<"B", "A", "B">>, -3, <<>>),
      GraphRow(<<"A", "C">>, -1, <<2>>),
      GraphRow(<<"C", "D">>, 0, <<3>>),
      GraphRow(<<"A", "B", "C">>, 4, <<1>>) }

SeqsUpTo(S, n) == UNION {[1..m -> S] : m \in 0..n}

InitGraph ==
    /\ pc = "graph"
    /\ fdf \in SeqsUpTo(GraphRowPool, MaxRows)
    /\ G = EmptyGraph
    /\ row_idx = 0
    /\ top_n = Idle
    /\ table = Idle
    /\ agg = Idle
    /\ TimeIdle /\ TaxIdle /\ NormIdle

\* One iteration of "for _, row in df.iterrows()"
GraphStep ==
    /\ pc = "graph"
    /\ row_idx < Len(fdf)
    /\ row_idx' = row_idx + 1
    /\ LET row == fdf[row_idx + 1]
       IN  IF SkipsRow(row) THEN UNCHANGED G
           ELSE \E order \in NewNodeOrders(G, row) :
                   G' = [nodes |-> G.nodes \o order,
                         edges |-> AddRowEdges(G.edges, row)]
    /\ UNCHANGED <<pc, fdf, top_n, table, agg, notGraph>>

\* The closing loop over the edges, and the return.
GraphFinish ==
    /\ pc = "graph"
    /\ row_idx = Len(fdf)
    /\ G' = [G EXCEPT !.edges = SetMeanSentiments(@)]
    /\ pc' = "graph_done"
    /\ UNCHANGED <<fdf, row_idx, top_n, table, agg, notGraph>>

\* top_centralities_table(G, top_n)
Centralities ==
    /\ pc = "graph_done"
    /\ \E n \in 0..MaxTopN :
          /\ top_n' = n
          /\ table' = top_centralities_table(G, n)
    /\ pc' = "ranked"
    /\ UNCHANGED <<fdf, G, row_idx, agg, notGraph>>

NextGraph == GraphStep \/ GraphFinish \/ Centralities

SpecGraph == InitGraph /\ [][NextGraph]_vars


(***************************************************************************)
(* geo_module.py: _aggregate_by_location                                   *)
(*                                                                         *)
(* A location is a text or NoLocation (None); an exploded row's label is a *)
(* text or NaN.  Texts are compared as Python compares them; Collation     *)
(* lists the texts of the model in that order.  A joined text is modelled  *)
(* by the sequence of the texts joined.                                    *)
(***************************************************************************)
NoLocation == "<None>"
NaN == "<NaN>"

Collation == <<"", "Aid", "Paris", "Protest", "Rome", "Sanctions", "Treaty">>
StrPos(x) == CHOOSE j \in 1..Len(Collation) : Collation[j] = x
StrLess(x, y) == StrPos(x) < StrPos(y)

\* The texts of the finite set S as a sequence in increasing order.
SortedStrings(S) ==
    [p \in 1..Cardinality(S) |->
        CHOOSE x \in S : Cardinality({y \in S : StrLess(y, x)}) = p - 1]

\* fdf.explode("event_types"): a row per label, one NaN row for an empty list
RECURSIVE Explode(_)
Explode(rs) ==
    IF rs = <<>> THEN <<>>
    ELSE LET r == Head(rs)
         IN  (IF r.event_types = <<>>
              THEN <<[event_location |-> r.event_location, event_types |-> NaN]>>
              ELSE [j \in 1..Len(r.event_types) |->
                       [event_location |-> r.event_location,
                        event_types |-> r.event_types[j]]])
             \o Explode(Tail(rs))

\* groupby(["event_location", "event_types"]).size().reset_index(name="count"):
\* null keys are dropped, the groups come sorted by their keys
TypeCounts(ex) ==
    LET keyed == {r \in Range(ex) :
                     r.event_location # NoLocation /\ r.event_types # NaN}
        KeyLess(x, y) ==
            \/ StrLess(x.event_location, y.event_location)
            \/ /\ x.event_location = y.event_location
               /\ StrLess(x.event_types, y.event_types)
        sorted == [p \in 1..Cardinality(keyed) |->
                      CHOOSE x \in keyed :
                          Cardinality({y \in keyed : KeyLess(y, x)}) = p - 1]
    IN  [j \in 1..Len(sorted) |->
            [event_location |-> sorted[j].event_location,
             event_types |-> sorted[j].event_types,
             count |-> Cardinality({h \in 1..Len(ex) : ex[h] = sorted[j]})]]

\* sort_values(["event_location", "count"], ascending=[True, False]): a
\* stable sort, a record going after the lesser ones and after the equal ones
\* that came before it
SortTypeCounts(tc) ==
    LET Less(x, y) ==
            \/ StrLess(x.event_location, y.event_location)
            \/ /\ x.event_location = y.event_location
               /\ x.count > y.count
        Place(i) ==
            1 + Cardinality({j \in 1..Len(tc) :
                                \/ Less(tc[j], tc[i])
                                \/ j < i /\ ~Less(tc[i], tc[j])})
    IN  [p \in 1..Len(tc) |-> tc[CHOOSE i \in 1..Len(tc) : Place(i) = p]]

\* groupby("event_location").head(3), then the labels of one location joined
TopTypesOf(rs, loc) ==
    LET mine == SelectSeq(SortTypeCounts(TypeCounts(Explode(rs))),
                          LAMBDA x : x.event_location = loc)
        head == Take(mine, TopTypes)
    IN  [j \in 1..Len(head) |-> head[j].event_types]

\* The groups of groupby("event_location"), the empty text left out.
GroupLocations_nonempty(rs) ==
    SortedStrings({rs[j].event_location : j \in 1..Len(rs)} \ {NoLocation, ""})

\* The groups of groupby("event_location"): the non-null keys, sorted
GroupLocations(rs) ==
    SortedStrings({rs[j].event_location : j \in 1..Len(rs)} \ {NoLocation})

_aggregate_by_location(rs) ==
    LET locs == GroupLocations(rs)
    IN  [j \in 1..Len(locs) |->
            LET mine == SelectSeq(rs, LAMBDA r : r.event_location = locs[j])
            IN  [event_location |-> locs[j],
                 n_events |-> Len(mine),
                 avg_sentiment |->
                     [num |-> SumSeq([h \in 1..Len(mine) |-> mine[h].sentiment]),
                      den |-> Len(mine)],
                 titles_preview |->
                     Take([h \in 1..Len(mine) |-> mine[h].event_title], PreviewLen),
                 \* the left join, and fillna(""): no label gives the empty text
                 top_types |-> TopTypesOf(rs, locs[j])]]

(***************************************************************************)
(* Specification of the location aggregator: one call on a row collection. *)
(***************************************************************************)
GeoRow(title, loc, s, types) ==
    [event_title |-> title, event_location |-> loc, entity_names |-> <<>>,
     sentiment |-> s, event_types |-> types]

GeoRowPool ==
    { GeoRow("t1", "Paris", 2, <<"Treaty", "Aid">>),
      GeoRow("t2", "Paris", -1, <<"Sanctions", "Protest">>),
      GeoRow("t3", "Paris", 0, <<"Treaty", "Treaty", "Sanctions">>),
      GeoRow("t4", "Rome", 1, <<"Aid">>),
      GeoRow("t5", "Rome", 3, <<>>),
      GeoRow("t6", "", -2, <<"Protest">>),
      GeoRow("t7", "", 0, <<>>),
      GeoRow("t8", NoLocation, 1, <<"Treaty">>) }

InitGeo ==
    /\ pc = "aggregate"
    /\ fdf \in SeqsUpTo(GeoRowPool, MaxRows)
    /\ agg = Idle
    /\ GraphIdle /\ TimeIdle /\ TaxIdle /\ NormIdle

Aggregate ==
    /\ pc = "aggregate"
    /\ agg' = _aggregate_by_location(fdf)
    /\ pc' = "aggregate_done"
    /\ UNCHANGED <<fdf, graphVars, notGraph>>

NextGeo == Aggregate

SpecGeo == InitGeo /\ [][NextGeo]_vars


(***************************************************************************)
(* timeline_module.py: _add_period, frequency, avg_sentiment,              *)
(* type_frequencies                                                        *)
(*                                                                         *)
(* A row's date and a period are Date(y, m, d) values.  The row collection *)
(* has the datetime column build_dataframe's rows give it.                 *)
(***************************************************************************)
\* date.weekday(): Monday is 0
DaysBeforeYear(y) == (y - 1) * 365 + (y - 1) \div 4 - (y - 1) \div 100 + (y - 1) \div 400
DaysBeforeMonth(y, m) == SumSeq([j \in 1..(m - 1) |-> DaysInMonth(j, y)])
Ordinal(dt) == DaysBeforeYear(dt.v[1]) + DaysBeforeMonth(dt.v[1], dt.v[2]) + dt.v[3]
Weekday(dt) == (Ordinal(dt) + 6) % 7

\* to_period("M").to_timestamp(): the first day of the month
MonthStart(dt) == Date(dt.v[1], dt.v[2], 1)

\* to_period("W").to_timestamp(): the Monday of the week ending on Sunday
WeekStart(dt) ==
    LET y == dt.v[1]
        m == dt.v[2]
        d == dt.v[3] - Weekday(dt)
        py == IF m = 1 THEN y - 1 ELSE y
        pm == IF m = 1 THEN 12 ELSE m - 1
    IN  IF d >= 1 THEN Date(y, m, d) ELSE Date(py, pm, DaysInMonth(pm, py) + d)

\* _add_period: the period of one date
Period(dt, g) == IF g = "M" THEN MonthStart(dt) ELSE WeekStart(dt)

DateLess(x, y) == Ordinal(x) < Ordinal(y)

\* The periods of the rows: the keys of groupby("period"), sorted
Periods(rs, g) ==
    LET S == {Period(rs[j].date, g) : j \in 1..Len(rs)}
    IN  [p \in 1..Cardinality(S) |->
            CHOOSE x \in S : Cardinality({y \in S : DateLess(y, x)}) = p - 1]

frequency(rs, g) ==
    LET ps == Periods(rs, g)
    IN  [p \in 1..Len(ps) |->
            [period |-> ps[p],
             events |-> Cardinality({j \in 1..Len(rs) :
                                        Period(rs[j].date, g) = ps[p]})]]

avg_sentiment(rs, g) ==
    LET ps == Periods(rs, g)
    IN  [p \in 1..Len(ps) |->
            LET mine == SelectSeq(rs, LAMBDA r : Period(r.date, g) = ps[p])
            IN  [period |-> ps[p],
                 sentiment |->
                     [num |-> SumSeq([h \in 1..Len(mine) |-> mine[h].sentiment]),
                      den |-> Len(mine)]]]

\* dd.explode("event_types").dropna(subset=["event_types"]): a (period, label)
\* record per label of each row; a row without labels gives none
RECURSIVE ExplodeTypes(_, _)
ExplodeTypes(rs, g) ==
    IF rs = <<>> THEN <<>>
    ELSE [j \in 1..Len(Head(rs).event_types) |->
             [period |-> Period(Head(rs).date, g),
              event_types |-> Head(rs).event_types[j]]]
         \o ExplodeTypes(Tail(rs), g)

\* The number of exploded records with label lab.
LabelCount(ex, lab) == Cardinality({j \in 1..Len(ex) : ex[j].event_types = lab})

\* The index value_counts() can give, least frequent label first.
ValueCountsOrders_ascending(ex) ==
    LET labs == {ex[j].event_types : j \in 1..Len(ex)}
    IN  {o \in Perms(labs) :
            \A i \in 1..Len(o), j \in 1..Len(o) :
                i < j => LabelCount(ex, o[i]) <= LabelCount(ex, o[j])}

\* The index value_counts() can give: the labels by count, descending.  The
\* sort is not a stable one, so labels of equal count come in any order.
ValueCountsOrders(ex) ==
    LET labs == {ex[j].event_types : j \in 1..Len(ex)}
    IN  {o \in Perms(labs) :
            \A i \in 1..Len(o), j \in 1..Len(o) :
                i < j => LabelCount(ex, o[i]) >= LabelCount(ex, o[j])}

\* type_frequencies, given the index value_counts() gave
type_frequencies(rs, topk, g, order) ==
    LET ex == ExplodeTypes(rs, g)
        top == Range(Take(order, topk))
        kept == SelectSeq(ex, LAMBDA r : r.event_types \in top)
        keys == Range(kept)
        KeyLess(x, y) ==
            \/ DateLess(x.period, y.period)
            \/ x.period = y.period /\ StrLess(x.event_types, y.event_types)
        sorted == [p \in 1..Cardinality(keys) |->
                      CHOOSE x \in keys :
                          Cardinality({y \in keys : KeyLess(y, x)}) = p - 1]
    IN  [p \in 1..Len(sorted) |->
            [period |-> sorted[p].period,
             event_types |-> sorted[p].event_types,
             count |-> Cardinality({h \in 1..Len(kept) : kept[h] = sorted[p]})]]

(***************************************************************************)
(* timeline_module.py: add_rolling_mean, mark_local_peaks                  *)
(*                                                                         *)
(* A series is the sequence of the column's numbers; position 1 is the     *)
(* code's index 0.                                                         *)
(***************************************************************************)
NaNValue == [t |-> "nan"]

\* The window of rolling(window=w, center=True) at position p of n, kept
\* inside the series: positions lo..hi
WindowLo(p, w, n) ==
    LET start == (p + (w - 1) \div 2) - w
    IN  (IF start < 0 THEN 0 ELSE IF start > n THEN n ELSE start) + 1

WindowHi(p, w, n) ==
    LET end == p + (w - 1) \div 2
    IN  IF end < 0 THEN 0 ELSE IF end > n THEN n ELSE end

\* The mean of s[lo..hi], null below min_periods observations
WindowMean(s, lo, hi, min_periods) ==
    IF hi - lo + 1 < min_periods THEN NaNValue
    ELSE [num |-> SumSeq(SubSeq(s, lo, hi)), den |-> hi - lo + 1]

\* rolling(window=w, center=True).mean(): min_periods left at the window size
add_rolling_mean_full_windows(s, w) ==
    [p \in 1..Len(s) |->
        WindowMean(s, WindowLo(p, w, Len(s)), WindowHi(p, w, Len(s)), w)]

\* rolling(window=w, center=True, min_periods=1).mean()
add_rolling_mean(s, w) ==
    [p \in 1..Len(s) |->
        WindowMean(s, WindowLo(p, w, Len(s)), WindowHi(p, w, Len(s)), 1)]

\* A point at least as high as both neighbours.
IsLocalPeak_not_strict(s, p) == s[p] >= s[p - 1] /\ s[p] >= s[p + 1]

\* dd.loc[i, y] > dd.loc[i-1, y] and dd.loc[i, y] > dd.loc[i+1, y]
IsLocalPeak(s, p) == s[p] > s[p - 1] /\ s[p] > s[p + 1]

(***************************************************************************)
(* Specification of the temporal aggregates: one call of frequency,        *)
(* avg_sentiment or type_frequencies on a row collection.                  *)
(***************************************************************************)
TimeRow(dt, s, types) ==
    [event_title |-> "t", event_location |-> "Paris", date |-> dt,
     entity_names |-> <<>>, sentiment |-> s, event_types |-> types]

TimeRowPool ==
    { TimeRow(Date(2021, 3, 15), 2, <<"Treaty", "Aid">>),
      TimeRow(Date(2021, 3, 20), -1, <<"Treaty">>),
      TimeRow(Date(2021, 3, 29), 1, <<"Protest", "Treaty", "Sanctions">>),
      TimeRow(Date(2021, 4, 1), 0, <<"Aid", "Protest">>),
      TimeRow(Date(2021, 4, 1), -3, <<"Sanctions", "Sanctions">>),
      TimeRow(Date(2021, 1, 2), 1, <<"Aid">>),
      TimeRow(Date(2020, 2, 29), 4, <<>>) }

Granularities == {"M", "W"}

TopKs == (0..MaxTopK) \cup {DefaultTopK}

SeriesIdle ==
    /\ ys = Idle /\ window = Idle /\ roll = Idle /\ is_peak = Idle
    /\ peak_i = Idle

InitTime ==
    /\ pc = "timeline"
    /\ fdf \in SeqsUpTo(TimeRowPool, MaxRows)
    /\ granularity \in Granularities
    /\ top_k = Idle
    /\ out = Idle
    /\ SeriesIdle
    /\ GraphIdle /\ agg = Idle /\ TaxIdle /\ NormIdle

Frequency ==
    /\ pc = "timeline"
    /\ out' = frequency(fdf, granularity)
    /\ pc' = "frequency_done"
    /\ UNCHANGED <<fdf, granularity, top_k, seriesVars, graphVars, agg, notRows>>

AvgSentiment ==
    /\ pc = "timeline"
    /\ out' = avg_sentiment(fdf, granularity)
    /\ pc' = "sentiment_done"
    /\ UNCHANGED <<fdf, granularity, top_k, seriesVars, graphVars, agg, notRows>>

TypeFrequencies ==
    /\ pc = "timeline"
    /\ \E n \in TopKs :
          /\ top_k' = n
          /\ \E order \in ValueCountsOrders(ExplodeTypes(fdf, granularity)) :
                out' = type_frequencies(fdf, n, granularity, order)
    /\ pc' = "types_done"
    /\ UNCHANGED <<fdf, granularity, seriesVars, graphVars, agg, notRows>>

NextTime == Frequency \/ AvgSentiment \/ TypeFrequencies

SpecTime == InitTime /\ [][NextTime]_vars

(***************************************************************************)
(* Specification of the series overlays: add_rolling_mean and              *)
(* mark_local_peaks on a series of numbers.                                *)
(***************************************************************************)
InitSeries ==
    /\ pc = "series"
    /\ ys \in SeqsUpTo(0..MaxValue, MaxSeriesLen)
    /\ window = Idle
    /\ roll = Idle
    /\ is_peak = Idle
    /\ peak_i = Idle
    /\ granularity = Idle /\ top_k = Idle /\ out = Idle
    /\ fdf = Idle /\ GraphIdle /\ agg = Idle /\ TaxIdle /\ NormIdle

\* add_rolling_mean(df, y, window)
RollingMean ==
    /\ pc = "series"
    /\ \E w \in 1..MaxWindow :
          /\ window' = w
          /\ roll' = add_rolling_mean(ys, w)
    /\ pc' = "rolled"
    /\ UNCHANGED <<ys, is_peak, peak_i, timeVars, fdf, graphVars, agg, notRows>>

\* mark_local_peaks: dd["is_peak"] = False, and the loop starts at index 1
PeaksBegin ==
    /\ pc = "series"
    /\ is_peak' = [p \in 1..Len(ys) |-> FALSE]
    /\ peak_i' = 1
    /\ pc' = "peaks"
    /\ UNCHANGED <<ys, window, roll, timeVars, fdf, graphVars, agg, notRows>>

\* One iteration of "for i in range(1, len(dd) - 1)": index peak_i is
\* position peak_i + 1
PeaksStep ==
    /\ pc = "peaks"
    /\ peak_i < Len(ys) - 1
    /\ is_peak' = IF IsLocalPeak(ys, peak_i + 1)
                  THEN [is_peak EXCEPT ![peak_i + 1] = TRUE]
                  ELSE is_peak
    /\ peak_i' = peak_i + 1
    /\ UNCHANGED <<pc, ys, window, roll, timeVars, fdf, graphVars, agg, notRows>>

PeaksFinish ==
    /\ pc = "peaks"
    /\ ~(peak_i < Len(ys) - 1)
    /\ pc' = "peaks_done"
    /\ UNCHANGED <<ys, window, roll, is_peak, peak_i, timeVars, fdf, graphVars,
                   agg, notRows>>

NextSeries == RollingMean \/ PeaksBegin \/ PeaksStep \/ PeaksFinish

SpecSeries == InitSeries /\ [][NextSeries]_vars


(***************************************************************************)
(* Claims about the normalizer and the resolver.                           *)
(***************************************************************************)
\* What C3 calls a parseable day/month/year text.
ParseableText(x) ==
    /\ x.t = "str"
    /\ x.fmt = "d/m/Y"
    /\ x.m \in 1..12 /\ x.y \in 1..9999
    /\ x.d >= 1
    /\ x.d <= (IF x.m = 2 THEN (IF IsLeap(x.y) THEN 29 ELSE 28)
               ELSE IF x.m \in {4, 6, 9, 11} THEN 30 ELSE 31)

\* The event's date descriptor: the first of its two keys that holds one.
DescriptorOf(ev) ==
    IF Truthy(ev.event_date_occured) THEN ev.event_date_occured
    ELSE ev.event_date_occurred

IsSingle(ev) ==
    LET d == DescriptorOf(ev)
    IN  d.t = "dict" /\ d.kind = "single" /\ ParseableText(d.date)

IsRange(ev) ==
    LET d == DescriptorOf(ev)
    IN  d.t = "dict" /\ d.kind = "range" /\ ParseableText(d.end)

HasDate(ev) == IsSingle(ev) \/ IsRange(ev)

DateOf(ev) ==
    LET d == DescriptorOf(ev)
        x == IF IsSingle(ev) THEN d.date ELSE d.end
    IN  Date(x.y, x.m, x.d)

\* C3: build_dataframe outputs a row for an event iff its date descriptor is
\* a "single" with a parseable date or a "range" with a parseable end; no
\* event makes it raise; the rows are those events in source order, each with
\* the non-null date parsed from date (single) or end (range).
C3_RowsAreTheDatedEvents ==
    pc = "build_done" =>
        LET flat == flatten_events(events_json)
            kept == SelectSeq(flat, HasDate)
        IN  /\ \A i \in 1..Len(flat) : df.ok
            /\ df.ok =>
                  /\ Len(df.v) = Len(kept)
                  /\ \A j \in 1..Len(kept) :
                        /\ df.v[j].event_title = kept[j].event_title
                        /\ df.v[j].date.t = "date"
                        /\ df.v[j].date = DateOf(kept[j])

\* C3's case: a dated single, an undated event and a dated range, in this order.
C3_Witness ==
    /\ pc = "build_done"
    /\ df.ok
    /\ LET flat == flatten_events(events_json)
       IN  /\ Len(flat) = 3
           /\ IsSingle(flat[1]) /\ ~HasDate(flat[2]) /\ IsRange(flat[3])
           /\ Len(df.v) = 2

\* C4: the lookup returns the exact entry's sentiment when the entry exists,
\* else the category's "other" sentiment when it defines one, else 0.0, and
\* never raises (an entry without a usable sentiment counts 0.0).
SentimentOr0(entry) ==
    IF entry.t = "dict" /\ "sentiment" \in DOMAIN entry.v
       /\ entry.v["sentiment"].t = "num"
    THEN entry.v["sentiment"].v ELSE 0

C4_LookupNeverRaises ==
    pc = "lookup_done" =>
        LET hasCat == category \in DOMAIN taxonomy.v
                      /\ taxonomy.v[category].t = "dict"
            node == taxonomy.v[category].v
        IN  /\ ret.ok
            /\ ret.v = (IF hasCat /\ label \in DOMAIN node
                        THEN SentimentOr0(node[label])
                        ELSE IF hasCat /\ "other" \in DOMAIN node
                        THEN SentimentOr0(node["other"])
                        ELSE 0)

\* C6: on empty input no component raises: build_dataframe on a source with
\* no event, or whose events are all dropped, returns an empty row collection.
C6_EmptyInputsGiveEmptyResults ==
    /\ pc = "build_done"
       /\ (\A i \in 1..NEvents(events_json) :
              ~HasDate(flatten_events(events_json)[i]))
       => df.ok /\ df.v = <<>>

(***************************************************************************)
(* Claims about the graph builder and the centrality ranker.               *)
(***************************************************************************)
EntityNames == {"A", "B", "C", "D"}

GraphBuilt == pc \in {"graph_done", "ranked"}

\* The rows whose entity list holds both a and b.
RowsWithBoth(a, b) ==
    {j \in 1..Len(fdf) : a \in Range(fdf[j].entity_names)
                         /\ b \in Range(fdf[j].entity_names)}

\* C1: after build_cooccurrence_graph, for distinct names a and b the edge
\* (a, b) exists iff some row lists both, and its weight is the number of rows
\* that list both, a row counting once even if it repeats a name.
C1_EdgeWeightCountsRows ==
    GraphBuilt =>
        \A a \in EntityNames, b \in EntityNames :
            a # b =>
                /\ has_edge(G, a, b) <=> RowsWithBoth(a, b) # {}
                /\ has_edge(G, a, b) =>
                      G.edges[{a, b}].weight = Cardinality(RowsWithBoth(a, b))

\* C1's case: the rows {A,B}, {A,B}, {A,C}, one of them repeating a name.
C1_Witness ==
    /\ GraphBuilt
    /\ Len(fdf) = 3
    /\ \E j \in 1..Len(fdf) :
          Len(fdf[j].entity_names) > Cardinality(Range(fdf[j].entity_names))
    /\ has_edge(G, "A", "B") /\ G.edges[{"A", "B"}].weight = 2
    /\ has_edge(G, "A", "C") /\ G.edges[{"A", "C"}].weight = 1
    /\ ~has_edge(G, "B", "C")

\* C2: the nodes are exactly the names of the rows that have at least two
\* distinct names, so the graph has no isolated node.
C2_NoIsolatedNode ==
    GraphBuilt =>
        /\ Range(G.nodes) =
              UNION {Range(fdf[j].entity_names) : j \in
                        {h \in 1..Len(fdf) :
                            Cardinality(Range(fdf[h].entity_names)) >= 2}}
        /\ \A n \in Range(G.nodes) : Degree(G, n) >= 1

Min(x, y) == IF x < y THEN x ELSE y

\* The place of a node in the graph's iteration order.
NodePos(n) == CHOOSE j \in 1..Len(G.nodes) : G.nodes[j] = n

\* C10: for a non-empty graph the table has min(top_n, |nodes|) records, one
\* per distinct node, in non-increasing degree; no omitted node has a greater
\* degree than a returned one; nodes of equal degree are in iteration order.
C10_TableIsTopByDegree ==
    pc = "ranked" /\ G.nodes # <<>> =>
        LET shown == {table[j].entity : j \in 1..Len(table)}
        IN  /\ Len(table) = Min(top_n, Len(G.nodes))
            /\ Cardinality(shown) = Len(table)
            /\ shown \subseteq Range(G.nodes)
            /\ \A i \in 1..Len(table), j \in 1..Len(table) :
                  i < j =>
                     /\ Degree(G, table[i].entity) >= Degree(G, table[j].entity)
                     /\ ~FracLess(table[i].degree, table[j].degree)
                     /\ Degree(G, table[i].entity) = Degree(G, table[j].entity)
                           => NodePos(table[i].entity) < NodePos(table[j].entity)
            /\ \A n \in Range(G.nodes) \ shown, j \in 1..Len(table) :
                  Degree(G, n) <= Degree(G, table[j].entity)

\* C10's case: a table cut short, with a tie and a strict step in it.
C10_Witness ==
    /\ pc = "ranked"
    /\ Len(table) = top_n /\ top_n < Len(G.nodes)
    /\ \E i \in 1..Len(table), j \in 1..Len(table) :
          i < j /\ table[i].degree_raw = table[j].degree_raw
    /\ \E i \in 1..Len(table), j \in 1..Len(table) :
          i < j /\ table[i].degree_raw > table[j].degree_raw

(***************************************************************************)
(* Claims about the location aggregator.                                   *)
(***************************************************************************)
AggLocations == {agg[j].event_location : j \in 1..Len(agg)}

SumEvents == SumSeq([j \in 1..Len(agg) |-> agg[j].n_events])

\* C5 as stated: one record per distinct non-empty location text, and the
\* n_events add up to the number of rows whose location is a non-empty text.
C5_AsStated ==
    pc = "aggregate_done" =>
        /\ Cardinality(AggLocations) = Len(agg)
        /\ AggLocations =
              {fdf[j].event_location : j \in 1..Len(fdf)} \ {NoLocation, ""}
        /\ SumEvents =
              Cardinality({j \in 1..Len(fdf) :
                              fdf[j].event_location \notin {NoLocation, ""}})

\* C5 amended: one record per distinct location text, the empty text
\* included, and the n_events add up to the number of rows whose location is
\* a text (not null); each record counts the rows of its location.
C5_CountsEveryTextLocation ==
    pc = "aggregate_done" =>
        /\ Cardinality(AggLocations) = Len(agg)
        /\ AggLocations = {fdf[j].event_location : j \in 1..Len(fdf)} \ {NoLocation}
        /\ SumEvents =
              Cardinality({j \in 1..Len(fdf) : fdf[j].event_location # NoLocation})
        /\ \A h \in 1..Len(agg) :
              agg[h].n_events =
                 Cardinality({j \in 1..Len(fdf) :
                                 fdf[j].event_location = agg[h].event_location})

\* C5's case: rows with an empty, a null and a twice-seen location.
C5_Witness ==
    /\ pc = "aggregate_done"
    /\ Len(fdf) = 3
    /\ \E j \in 1..Len(fdf) : fdf[j].event_location = ""
    /\ \E h \in 1..Len(agg) : agg[h].n_events = 2
    /\ SumEvents = 3


(***************************************************************************)
(* Claims about the temporal aggregates and the series overlays.           *)
(***************************************************************************)
\* The labels of the row collection, and how often a label occurs: over all
\* rows, and over the rows of one period.
AllLabels == UNION {Range(fdf[j].event_types) : j \in 1..Len(fdf)}

Occurrences(lab) ==
    Cardinality({jh \in (1..Len(fdf)) \X (1..3) :
                    /\ jh[2] <= Len(fdf[jh[1]].event_types)
                    /\ fdf[jh[1]].event_types[jh[2]] = lab})

OccurrencesIn(per, lab) ==
    Cardinality({jh \in (1..Len(fdf)) \X (1..3) :
                    /\ jh[2] <= Len(fdf[jh[1]].event_types)
                    /\ fdf[jh[1]].event_types[jh[2]] = lab
                    /\ Period(fdf[jh[1]].date, granularity) = per})

OutLabels == {out[p].event_types : p \in 1..Len(out)}

\* C7: the labels in the output of type_frequencies are at most top_k, and are
\* the top_k labels by total count over all rows: no label left out occurs
\* more often than a label shown.  Every other label is absent from every
\* period, and a (period, label) count is the number of occurrences of the
\* label in the rows of the period.
C7_TypeSeriesIsGlobalTopK ==
    pc = "types_done" =>
        /\ Cardinality(OutLabels) <= top_k
        /\ OutLabels \subseteq AllLabels
        /\ Cardinality(OutLabels) = Min(top_k, Cardinality(AllLabels))
        /\ \A a \in OutLabels, b \in AllLabels \ OutLabels :
              Occurrences(a) >= Occurrences(b)
        /\ \A p \in 1..Len(out) :
              \E j \in 1..Len(fdf) : out[p].period = Period(fdf[j].date, granularity)
        /\ \A j \in 1..Len(fdf), lab \in AllLabels :
              LET per == Period(fdf[j].date, granularity)
                  recs == {p \in 1..Len(out) : /\ out[p].period = per
                                               /\ out[p].event_types = lab}
              IN  IF lab \in OutLabels /\ OccurrencesIn(per, lab) > 0
                  THEN /\ Cardinality(recs) = 1
                       /\ \A p \in recs : out[p].count = OccurrencesIn(per, lab)
                  ELSE recs = {}

\* type_frequencies has cut a collection with more than top_k labels, two of
\* them tied at the cut, and the output spans two periods.
C7_Witness ==
    /\ pc = "types_done"
    /\ top_k = 2
    /\ Cardinality(AllLabels) > top_k
    /\ \E a \in OutLabels, b \in AllLabels \ OutLabels :
          Occurrences(a) = Occurrences(b)
    /\ \E p \in 1..Len(out), q \in 1..Len(out) :
          /\ out[p].period # out[q].period
          /\ out[p].count > 1

\* C8: mark_local_peaks flags position i exactly when 0 < i < last index and
\* the value at i is strictly greater than the values at i-1 and at i+1.  The
\* first and the last point are never flagged, an increasing series has no
\* peak, and a series of length 0, 1 or 2 has none.
C8_PeaksAreStrictInteriorMaxima ==
    pc = "peaks_done" =>
        /\ Len(is_peak) = Len(ys)
        /\ \A p \in 1..Len(ys) :
              is_peak[p] <=> /\ 1 < p /\ p < Len(ys)
                             /\ ys[p] > ys[p - 1]
                             /\ ys[p] > ys[p + 1]
        /\ Len(ys) >= 1 => ~is_peak[1] /\ ~is_peak[Len(ys)]
        /\ (\A p \in 2..Len(ys) : ys[p - 1] <= ys[p])
              => \A p \in 1..Len(ys) : ~is_peak[p]
        /\ Len(ys) <= 2 => \A p \in 1..Len(ys) : ~is_peak[p]

\* mark_local_peaks has flagged a point of a series that also has an interior
\* point level with a neighbour.
C8_Witness ==
    /\ pc = "peaks_done"
    /\ \E p \in 1..Len(ys) : is_peak[p]
    /\ \E p \in 2..(Len(ys) - 1) :
          /\ ys[p] = ys[p + 1]
          /\ ys[p] > ys[p - 1]
          /\ ~is_peak[p]

\* The mean of the points of ys at the positions ps.
MeanOf(ps) ==
    [num |-> SumSeq([h \in 1..Len(ps) |-> ys[ps[h]]]), den |-> Len(ps)]

\* C9: for a series of length n >= 1 and window 3, add_rolling_mean gives a
\* non-null value at every position: at an interior position the mean of the
\* values at i-1, i and i+1, at the first and the last position the mean of
\* the points there are (2 when n >= 2, 1 when n = 1); [1,2,3] gives 1.5, 2,
\* 2.5.
C9_RollingMeanUsesAvailablePoints ==
    pc = "rolled" /\ window = 3 /\ Len(ys) >= 1 =>
        /\ Len(roll) = Len(ys)
        /\ \A p \in 1..Len(ys) :
              /\ roll[p] # NaNValue
              /\ roll[p] = (IF Len(ys) = 1 THEN MeanOf(<<1>>)
                            ELSE IF p = 1 THEN MeanOf(<<1, 2>>)
                            ELSE IF p = Len(ys) THEN MeanOf(<<p - 1, p>>)
                            ELSE MeanOf(<<p - 1, p, p + 1>>))
        /\ ys = <<1, 2, 3>>
              => roll = <<[num |-> 3, den |-> 2], [num |-> 6, den |-> 3],
                          [num |-> 5, den |-> 2]>>

\* add_rolling_mean has averaged [1,2,3] with window 3.
C9_Witness ==
    /\ pc = "rolled"
    /\ window = 3
    /\ ys = <<1, 2, 3>>
    /\ roll[1] = [num |-> 3, den |-> 2]
    /\ roll[3] = [num |-> 5, den |-> 2]


(***************************************************************************)
(* Claims about the labels kept per location.                              *)
(***************************************************************************)
\* The places <<row, position>> of fdf where label lab occurs at location loc.
PlacesAt(loc, lab) ==
    {jh \in (1..Len(fdf)) \X (1..3) :
        /\ fdf[jh[1]].event_location = loc
        /\ jh[2] <= Len(fdf[jh[1]].event_types)
        /\ fdf[jh[1]].event_types[jh[2]] = lab}

CountAt(loc, lab) == Cardinality(PlacesAt(loc, lab))

LabelsAt(loc) ==
    UNION {Range(fdf[j].event_types) :
              j \in {h \in 1..Len(fdf) : fdf[h].event_location = loc}}

\* Label a is seen at loc before label b: its first place comes first in the
\* source rows.
SeenBefore(loc, a, b) ==
    \E x \in PlacesAt(loc, a) :
        \A y \in PlacesAt(loc, b) :
            x[1] < y[1] \/ (x[1] = y[1] /\ x[2] < y[2])

\* The labels of a record are at most TopTypes labels of its location, by
\* descending count, none with a smaller count than a label left out.
TopTypesByCount(rec) ==
    LET loc == rec.event_location
        tt == rec.top_types
    IN  /\ Len(tt) <= 3
        /\ Range(tt) \subseteq LabelsAt(loc)
        /\ Cardinality(Range(tt)) = Len(tt)
        /\ Len(tt) = Min(3, Cardinality(LabelsAt(loc)))
        /\ \A i \in 1..Len(tt), j \in 1..Len(tt) :
              i < j => CountAt(loc, tt[i]) >= CountAt(loc, tt[j])
        /\ \A a \in Range(tt), b \in LabelsAt(loc) \ Range(tt) :
              CountAt(loc, a) >= CountAt(loc, b)

\* Labels of equal count are ordered, and selected, by first-seen order.
TiesByFirstSeen(rec) ==
    LET loc == rec.event_location
        tt == rec.top_types
    IN  /\ \A i \in 1..Len(tt), j \in 1..Len(tt) :
              i < j /\ CountAt(loc, tt[i]) = CountAt(loc, tt[j])
                  => SeenBefore(loc, tt[i], tt[j])
        /\ \A a \in Range(tt), b \in LabelsAt(loc) \ Range(tt) :
              CountAt(loc, a) = CountAt(loc, b) => SeenBefore(loc, a, b)

\* C11: for every location, top_types lists at most 3 labels, by descending
\* count at the location, none with a smaller count than a label left out,
\* and labels of equal count are ordered and selected by their first-seen
\* order in the source rows.
C11_TopTypesByCountThenFirstSeen ==
    pc = "aggregate_done" =>
        \A p \in 1..Len(agg) :
            TopTypesByCount(agg[p]) /\ TiesByFirstSeen(agg[p])


(***************************************************************************)
(* Claims about the edges' accumulators.                                   *)
(***************************************************************************)
\* C12: after build_cooccurrence_graph has processed a sequence of rows, every
\* edge has weight = length of sentiments = length of event_titles >= 1, its
\* endpoints are two distinct names, and its mean_sentiment is the sum of its
\* sentiments divided by its weight: the 0.0 of an empty list is never taken.
C12_EdgeAccumulatorsAgree ==
    GraphBuilt =>
        \A e \in DOMAIN G.edges :
            /\ G.edges[e].weight = Len(G.edges[e].sentiments)
            /\ G.edges[e].weight = Len(G.edges[e].event_titles)
            /\ G.edges[e].weight >= 1
            /\ Cardinality(e) = 2
            /\ e \subseteq Range(G.nodes)
            /\ G.edges[e].sentiments # <<>>
            /\ G.edges[e].mean_sentiment =
                  [num |-> SumSeq(G.edges[e].sentiments),
                   den |-> G.edges[e].weight]

\* The graph is built and has an edge two rows of different sentiment went
\* into, beside an edge of one row.
C12_Witness ==
    /\ pc = "graph_done"
    /\ \E e \in DOMAIN G.edges :
          /\ G.edges[e].weight = 2
          /\ G.edges[e].sentiments[1] # G.edges[e].sentiments[2]
          /\ G.edges[e].mean_sentiment.num # 0
    /\ \E e \in DOMAIN G.edges : G.edges[e].weight = 1

====
